---- MODULE Spec2Model ----
(***************************************************************************)
(* mrstat: one run of the merge-request status reporter.                   *)
(*                                                                         *)
(* The program is a single-threaded Node.js process.  Every action below   *)
(* is one turn of the event loop: an event handler of src/gitlab.ts        *)
(* (response, 'data', 'end', 'error') together with the promise reactions  *)
(* (microtasks) it triggers, which Node drains before the next event:      *)
(* the .then callback of a sub-request, Promise.all, the continuation of   *)
(* openMergeRequests and of main, and main().catch.                        *)
(***************************************************************************)
EXTENDS Integers, Sequences, FiniteSets, TLC

VARIABLES
  config,   \* the parsed ~/.mrstat.json handed to new GitLab(config)
  gitlab,   \* the GitLab object: authors, project_id, target_branch (None before construction)
  pc,       \* position of main(): "start", "listing", "enriching", "done", "failed"
  heap,     \* the MergeRequest objects of all_mrs, in listing order (objects are shared by reference)
  mrs,      \* the filtered array: references (indices into heap), in order
  reqs,     \* the #get requests: reqs[1] is the listing, reqs[k + 1] the approvals of mrs[k]
  tasks,    \* the sub-task promises handed to Promise.all, one per element of mrs
  writes,   \* per object of heap, how often each enrichment field has been assigned
  grouped,  \* the Map returned by groupBy in main (None until main gets there)
  stdout,   \* what console.log has written
  stderr    \* what console.warn / console.error / log have written

vars == <<config, gitlab, pc, heap, mrs, reqs, tasks, writes, grouped, stdout, stderr>>

----------------------------------------------------------------------------
(* Bounds of the model *)

\* longest listing the server answers with
MaxItems == 2
\* largest approvals_required the server answers with
MaxApprovals == 2
\* most 'data' events of one response
MaxChunks == 1

----------------------------------------------------------------------------
(* Values *)


MergeStatus ==
  {"unchecked", "checking", "can_be_merged", "cannot_be_merged", "cannot_be_merged_recheck"}

\* The characters of each MergeStatus value, for String.prototype.includes
StatusChars(s) ==
  CASE s = "unchecked" -> <<"u","n","c","h","e","c","k","e","d">>
    [] s = "checking" -> <<"c","h","e","c","k","i","n","g">>
    [] s = "can_be_merged" -> <<"c","a","n","_","b","e","_","m","e","r","g","e","d">>
    [] s = "cannot_be_merged" ->
         <<"c","a","n","n","o","t","_","b","e","_","m","e","r","g","e","d">>
    [] s = "cannot_be_merged_recheck" ->
         <<"c","a","n","n","o","t","_","b","e","_","m","e","r","g","e","d",
           "_","r","e","c","h","e","c","k">>

\* the literal "cannot_be_merged" of #findBlockers
CannotBeMerged == StatusChars("cannot_be_merged")

\* String.prototype.includes: pat occurs in s as a contiguous substring
Includes(s, pat) ==
  \E i \in 1..(Len(s) - Len(pat) + 1) : SubSeq(s, i, i + Len(pat) - 1) = pat

\* Array.prototype.includes over an array of numbers
ArrayIncludes(arr, x) == \E i \in 1..Len(arr) : arr[i] = x

\* An optional value: None is JavaScript's undefined / a missing key
None == <<>>
Some(v) == <<v>>
IsSome(o) == Len(o) = 1
Get(o) == o[1]

\* a ?? b
Coalesce(o, dflt) == IF IsSome(o) THEN Get(o) ELSE dflt

\* Array.prototype.join over an array of strings
RECURSIVE Join(_, _)
Join(arr, sep) ==
  IF arr = <<>> THEN ""
  ELSE IF Len(arr) = 1 THEN arr[1]
       ELSE arr[1] \o sep \o Join(Tail(arr), sep)

----------------------------------------------------------------------------
(* Configuration (GitLabConfig) *)

\* Object.values(authors): the ids of the entries, in insertion order
RECURSIVE ObjectValues(_)
ObjectValues(obj) ==
  IF obj = <<>> THEN <<>> ELSE <<Head(obj).id>> \o ObjectValues(Tail(obj))

\* Object.entries(authors).length
ObjectEntriesLength(obj) == Len(obj)

AuthorTables ==
  { <<>>,
    <<[key |-> "alice", id |-> 1]>>,
    <<[key |-> "zed", id |-> 9]>>,
    <<[key |-> "bob", id |-> 2], [key |-> "alice", id |-> 1]>> }

\* the configurations a run is started with: complete ones, whose authors
\* table and branch vary, and ones lacking a required key
Configs ==
  { [api_token |-> Some("SECRET"), project_id |-> Some(12345678),
     authors |-> a, target_branch |-> Some("master")] :
       a \in {None} \cup {Some(t) : t \in AuthorTables} }
  \cup
  { [api_token |-> Some("SECRET"), project_id |-> Some(12345678),
     authors |-> Some(<<[key |-> "alice", id |-> 1]>>), target_branch |-> None],
    [api_token |-> Some("glpat-2"), project_id |-> Some(12345678),
     authors |-> Some(<<[key |-> "alice", id |-> 1]>>), target_branch |-> Some("master")] }
  \cup
  { [api_token |-> t, project_id |-> Some(12345678),
     authors |-> None, target_branch |-> Some("master")] : t \in {None, Some("")} }
  \cup
  { [api_token |-> Some("SECRET"), project_id |-> p,
     authors |-> None, target_branch |-> None] : p \in {None, Some(0)} }

\* an Error object
Error(message) == [message |-> message]

\* a line written to a console stream by log, console.warn or console.error:
\* its text, and the pieces the text is put together from (a literal or a
\* message is one piece)
Line(kind, text) == [kind |-> kind, text |-> text, pieces |-> <<text>>]

\* a line interpolating several pieces
LineOf(kind, pieces) == [kind |-> kind, text |-> Join(pieces, ""), pieces |-> pieces]

\* Mutant of ConstructorThrows: a missing or empty authors table is an error too
ConstructorThrowsStrict(c) ==
  IF ~IsSome(c.api_token) \/ Get(c.api_token) = ""
  THEN Some(Error("missing api_token"))
  ELSE IF ~IsSome(c.project_id) \/ Get(c.project_id) = 0
       THEN Some(Error("missing project_id"))
       ELSE IF ~IsSome(c.authors) \/ Len(Get(c.authors)) < 1
            THEN Some(Error("missing or empty property authors"))
            ELSE None

\* GitLab constructor, lines 81-89: the error it throws, if any
ConstructorThrows(c) ==
  IF ~IsSome(c.api_token) \/ Get(c.api_token) = ""
  THEN Some(Error("missing api_token"))
  ELSE IF ~IsSome(c.project_id) \/ Get(c.project_id) = 0
       THEN Some(Error("missing project_id"))
       ELSE None

\* GitLab constructor, lines 91-98: the warnings it writes
ConstructorWarnings(c) ==
  (IF ~IsSome(c.authors) \/ ObjectEntriesLength(Get(c.authors)) < 1
   THEN <<Line("warn", "missing or empty property authors"),
          Line("warn", "all open project MRs will be returned")>>
   ELSE <<>>)
  \o
  (IF ~IsSome(c.target_branch)
   THEN <<Line("warn", "Configuration missing branch name; defaulting to main")>>
   ELSE <<>>)

\* GitLab constructor, lines 100-103: the fields of the new object; api_token
\* is the private field #api_token
NewGitLab(c) ==
  [api_token |-> Get(c.api_token),
   authors |-> Coalesce(c.authors, <<>>),
   project_id |-> Get(c.project_id),
   target_branch |-> Coalesce(c.target_branch, "main")]

----------------------------------------------------------------------------
(* Merge requests *)

AuthorIds == {1, 2}

\* a MergeRequest as the listing returns it: no enrichment fields yet
MergeRequest(iid, author, resolved, conflicts, status, labels) ==
  [iid |-> iid,
   title |-> "MR " \o ToString(iid),
   web_url |-> "https://gitlab.com/mr/" \o ToString(iid),
   author |-> [id |-> author, username |-> "user" \o ToString(author)],
   labels |-> labels,
   blocking_discussions_resolved |-> resolved,
   has_conflicts |-> conflicts,
   merge_status |-> status,
   approvals_needed |-> None,
   blockers |-> None]

\* Mutant of FindBlockers: the merge status is compared for equality, so
\* cannot_be_merged_recheck is not a blocker
FindBlockersExact(mr) ==
  (IF ~mr.blocking_discussions_resolved THEN <<"unresolved threads">> ELSE <<>>)
  \o (IF mr.has_conflicts THEN <<"has conflicts">> ELSE <<>>)
  \o (IF mr.merge_status = "cannot_be_merged" THEN <<"cannot be merged">> ELSE <<>>)
  \o (IF Get(mr.approvals_needed) > 0
      THEN <<"requires approval (" \o ToString(Get(mr.approvals_needed)) \o ")">>
      ELSE <<>>)

\* #findBlockers, lines 150-167
FindBlockers(mr) ==
  LET threads_resolved == mr.blocking_discussions_resolved
      has_conflicts == mr.has_conflicts
      merge_status == mr.merge_status
      approvals_needed == Get(mr.approvals_needed)
  IN  (IF ~threads_resolved THEN <<"unresolved threads">> ELSE <<>>)
      \o (IF has_conflicts THEN <<"has conflicts">> ELSE <<>>)
      \o (IF Includes(StatusChars(merge_status), CannotBeMerged)
          THEN <<"cannot be merged">> ELSE <<>>)
      \o (IF approvals_needed > 0
          THEN <<"requires approval (" \o ToString(approvals_needed) \o ")">>
          ELSE <<>>)

\* openMergeRequests, lines 122-124: all_mrs.filter(mr => author_ids.includes(mr.author.id)),
\* over references into the heap h
RECURSIVE FilterByAuthors(_, _, _)
FilterByAuthors(refs, author_ids, h) ==
  IF refs = <<>> THEN <<>>
  ELSE (IF ArrayIncludes(author_ids, h[Head(refs)].author.id)
        THEN <<Head(refs)>> ELSE <<>>)
       \o FilterByAuthors(Tail(refs), author_ids, h)

\* Mutant of SelectMRs: the filter is applied even when there are no author ids
SelectMRsAlwaysFilter(g, h) ==
  FilterByAuthors([i \in 1..Len(h) |-> i], ObjectValues(g.authors), h)

\* Mutant of SelectMRs: a filter that keeps nothing falls back to every merge request
SelectMRsFallback(g, h) ==
  LET all_mrs == [i \in 1..Len(h) |-> i]
      kept == FilterByAuthors(all_mrs, ObjectValues(g.authors), h)
  IN  IF Len(kept) > 0 THEN kept ELSE all_mrs

\* openMergeRequests, lines 119-125: the array mrs, as references into the heap h
SelectMRs(g, h) ==
  LET author_ids == ObjectValues(g.authors)
      all_mrs == [i \in 1..Len(h) |-> i]
  IN  IF Len(author_ids) > 0 THEN FilterByAuthors(all_mrs, author_ids, h) ELSE all_mrs

\* the iid of the i-th merge request of a listing (newest first)
IidAt(i) == 30 - i

\* what the server can list in one position: author, discussions resolved,
\* conflicts, merge status, labels
MRFrom(iid, c) == MergeRequest(iid, c[1], c[2], c[3], c[4], c[5])

\* the listings of at most maxLen merge requests drawn from choices
Listings(choices, maxLen) ==
  UNION { { [i \in 1..n |-> MRFrom(IidAt(i), f[i])] : f \in [1..n -> choices] } :
          n \in 0..maxLen }

\* an MRApprovalStatus for iid
ApprovalStatus(iid, c) ==
  [iid |-> iid, approvals_required |-> c[1], approvals_left |-> c[2]]

----------------------------------------------------------------------------
(* Promises *)

Pending == [state |-> "pending", value |-> None]

\* resolve(v) of the executor, line 209: no effect on a settled promise
Resolve(p, v) ==
  IF p.state = "pending" THEN [state |-> "fulfilled", value |-> Some(v)] ELSE p

\* reject(e) of the executor, lines 195, 206, 212: no effect on a settled promise
Reject(p, e) ==
  IF p.state = "pending" THEN [state |-> "rejected", value |-> Some(e)] ELSE p

----------------------------------------------------------------------------
(* #get: one request and its event handlers *)

\* the received text: Buffer.concat(chunks).toString().  length counts the
\* chunks received; json is the value the text denotes, None when the text is
\* not well-formed JSON (the empty text is not)
Data(length, json) == [length |-> length, json |-> json]

\* JSON.parse: throws a SyntaxError on text that is not well-formed
JSONParse(data) ==
  IF IsSome(data.json)
  THEN [ok |-> TRUE, result |-> data.json]
  ELSE [ok |-> FALSE, result |-> Some(Error("Unexpected end of JSON input"))]

\* #get, lines 180-185: the path logged for a request
ListingUrl(g) == "/merge_requests?scope=all&state=opened&target_branch=" \o g.target_branch
ApprovalsUrl(iid) == "/merge_requests/" \o ToString(iid) \o "/approvals"

\* #get, lines 185-214: the request as issued.  seen records what the
\* transport has delivered to the handlers so far: the status code, an 'error'
\* event, and whether the text received at 'end' was well-formed JSON
NewRequest(logUrl, iid, api_token) ==
  [logUrl |-> logUrl, iid |-> iid,
   headers |-> [authorization |-> <<"Bearer ", api_token>>],
   phase |-> "sent", listening |-> FALSE,
   chunks |-> 0, promise |-> Pending,
   seen |-> [status |-> None, error |-> FALSE, body |-> "none"]]

\* #get, line 185
RequestingLine(logUrl) == LineOf("log", <<logUrl, " - requesting...">>)

\* #get, line 208
ReceivedLine(logUrl, data) ==
  LineOf("log", <<logUrl, " - received ", ToString(data.length), " bytes.">>)

\* Mutant of StatusRejected: only the upper end of the range is checked
StatusRejectedHigh(statusCode) == statusCode >= 300

\* #get, line 194: the status check (a response's statusCode is a positive
\* number, so the leading "statusCode &&" is true)
StatusRejected(statusCode) == statusCode < 200 \/ statusCode >= 300

\* #get, lines 192-199: the response callback
OnResponse(req, statusCode) ==
  IF StatusRejected(statusCode)
  THEN [req EXCEPT !.phase = "receiving", !.seen.status = Some(statusCode),
                   !.promise = Reject(@, Error("statusCode=" \o ToString(statusCode)))]
  ELSE [req EXCEPT !.phase = "receiving", !.seen.status = Some(statusCode),
                   !.listening = TRUE]

\* #get, line 199: the 'data' handler
OnData(req) == [req EXCEPT !.chunks = @ + 1]

\* #get, lines 200-210: the 'end' handler
OnEnd(req, data) ==
  LET parsed == JSONParse(data)
      afterParse == IF parsed.ok THEN req.promise
                    ELSE Reject(req.promise, Get(parsed.result))
      result == IF parsed.ok THEN parsed.result ELSE None
  IN  [req EXCEPT !.phase = "closed", !.promise = Resolve(afterParse, result),
                  !.seen.body = IF IsSome(data.json) THEN "wellformed" ELSE "malformed"]

\* #get, line 212: the request's 'error' handler
OnError(req) ==
  [req EXCEPT !.phase = "closed", !.seen.error = TRUE,
              !.promise = Reject(@, Error("socket hang up"))]

\* Mutant of EndLines: the size is logged inside the try block, after a
\* successful parse only
EndLinesWhenParsed(req, data) ==
  IF JSONParse(data).ok THEN <<ReceivedLine(req.logUrl, data)>> ELSE <<>>

\* #get, lines 200-210: what the 'end' handler logs, parsed or not
EndLines(req, data) == <<ReceivedLine(req.logUrl, data)>>

----------------------------------------------------------------------------
(* Grouping and formatting (util.ts, index.ts) *)

\* a Map, as its entries in insertion order
MapHas(m, key) == \E i \in 1..Len(m) : m[i].key = key
MapIndex(m, key) == CHOOSE i \in 1..Len(m) : m[i].key = key
MapGet(m, key) == m[MapIndex(m, key)].values

\* index.ts line 22: the grouping key of a merge request
GroupKey(mr) == IF Len(Get(mr.blockers)) > 0 THEN "blocked" ELSE "ready"

\* groupBy, lines 43-51: the loop, continuing from the Map m
RECURSIVE GroupByInto(_, _, _)
GroupByInto(m, xs, h) ==
  IF xs = <<>> THEN m
  ELSE LET x == Head(xs)
           key == GroupKey(h[x])
       IN  GroupByInto(
             IF MapHas(m, key)
             THEN [m EXCEPT ![MapIndex(m, key)].values = Append(@, x)]
             ELSE Append(m, [key |-> key, values |-> <<x>>]),
             Tail(xs), h)

\* Mutant of GroupBy: a key that is already present is set again, not pushed to
RECURSIVE GroupByOverwriteInto(_, _, _)
GroupByOverwriteInto(m, xs, h) ==
  IF xs = <<>> THEN m
  ELSE LET x == Head(xs)
           key == GroupKey(h[x])
       IN  GroupByOverwriteInto(
             IF MapHas(m, key)
             THEN [m EXCEPT ![MapIndex(m, key)].values = <<x>>]
             ELSE Append(m, [key |-> key, values |-> <<x>>]),
             Tail(xs), h)
GroupByOverwrite(xs, h) == GroupByOverwriteInto(<<>>, xs, h)

\* groupBy, lines 40-54, over references xs into the heap h
GroupBy(xs, h) == GroupByInto(<<>>, xs, h)

\* formatMRs, lines 26-34: the pieces pushed for one merge request
FormatMR(mr) ==
  <<"    * [" \o mr.title \o "](" \o mr.web_url \o ") (" \o mr.author.username \o ")\n">>
  \o (IF Len(mr.labels) > 0
      THEN <<"        * Labels: " \o Join(mr.labels, ", ") \o "\n">> ELSE <<>>)
  \o (IF Len(Get(mr.blockers)) > 0
      THEN <<"        * " \o Join(Get(mr.blockers), ", ") \o "\n">> ELSE <<>>)

RECURSIVE FormatEach(_, _)
FormatEach(xs, h) ==
  IF xs = <<>> THEN <<>> ELSE FormatMR(h[Head(xs)]) \o FormatEach(Tail(xs), h)

\* formatMRs, lines 22-38: the text, as the pieces that join("") concatenates
FormatMRs(header, xs, h) == <<"* *" \o header \o "*\n">> \o FormatEach(xs, h)

\* Mutant of Output: a section is formatted whether or not its key is present
OutputEverySection(g, m, h) ==
  <<"\n*Open MRs against " \o g.target_branch \o ":*\n">>
  \o FormatMRs("Ready to Merge", IF MapHas(m, "ready") THEN MapGet(m, "ready") ELSE <<>>, h)
  \o FormatMRs("Blocked", IF MapHas(m, "blocked") THEN MapGet(m, "blocked") ELSE <<>>, h)

\* index.ts lines 28-34: the report text, as its pieces
Output(g, m, h) ==
  <<"\n*Open MRs against " \o g.target_branch \o ":*\n">>
  \o (IF MapHas(m, "ready") THEN FormatMRs("Ready to Merge", MapGet(m, "ready"), h) ELSE <<>>)
  \o (IF MapHas(m, "blocked") THEN FormatMRs("Blocked", MapGet(m, "blocked"), h) ELSE <<>>)

\* index.ts lines 36-46: what main writes to the diagnostic stream around the report
ReportWarnings(isTTY) ==
  <<Line("warn", "Output can safely be piped to clipboard."),
    Line("warn", "E.g., for macOS: mrstat | pbcopy")>>
  \o (IF isTTY THEN <<Line("warn", "===== BEGIN MARKDOWN =====")>> ELSE <<>>)
  \o (IF isTTY THEN <<Line("warn", "===== END MARKDOWN =====")>> ELSE <<>>)

\* index.ts line 49: main().catch
CatchLine(err) == Line("error", err.message)

\* index.ts lines 21-47, once openMergeRequests has returned xs: group,
\* format and print; reading .length of an unset blockers field throws
MainResume(g, xs, h, isTTY) ==
  IF \E i \in 1..Len(xs) : ~IsSome(h[xs[i]].blockers)
  THEN [pc |-> "failed", grouped |-> None, stdout |-> <<>>,
        stderr |-> <<CatchLine(Error("Cannot read properties of undefined (reading 'length')"))>>]
  ELSE LET m == GroupBy(xs, h)
       IN  [pc |-> "done", grouped |-> Some(m), stdout |-> <<Output(g, m, h)>>,
            stderr |-> ReportWarnings(isTTY)]

----------------------------------------------------------------------------
(* Enrichment (openMergeRequests, lines 129-140) *)

\* Mutant of Enrich: the count is stored and the blockers are not derived
EnrichCountOnly(h, ref, approvals) ==
  [h EXCEPT ![ref].approvals_needed = Some(approvals.approvals_left)]

\* Mutant of Enrich: the result is stored in the first object not yet enriched,
\* as if results were collected in completion order
EnrichInCompletionOrder(h, ref, approvals) ==
  LET unset == { i \in DOMAIN h : ~IsSome(h[i].approvals_needed) }
      target == IF unset = {} THEN ref ELSE CHOOSE i \in unset : \A j \in unset : i <= j
      withCount == [h[target] EXCEPT !.approvals_needed = Some(approvals.approvals_left)]
  IN  [h EXCEPT ![target] = [withCount EXCEPT !.blockers = Some(FindBlockers(withCount))]]

\* Mutant of Enrich: the count stored is approvals_required
EnrichFromRequired(h, ref, approvals) ==
  LET withCount == [h[ref] EXCEPT !.approvals_needed = Some(approvals.approvals_required)]
  IN  [h EXCEPT ![ref] = [withCount EXCEPT !.blockers = Some(FindBlockers(withCount))]]

\* lines 132-135: the .then callback of the sub-request for the object ref
Enrich(h, ref, approvals) ==
  LET withCount == [h[ref] EXCEPT !.approvals_needed = Some(approvals.approvals_left)]
  IN  [h EXCEPT ![ref] = [withCount EXCEPT !.blockers = Some(FindBlockers(withCount))]]

\* lines 133-134: the assignments the callback makes, counted per field
CountWrites(w, ref) ==
  [w EXCEPT ![ref] = [approvals_needed |-> @.approvals_needed + 1,
                      blockers |-> @.blockers + 1]]

\* Mutant of AllFulfilled: the join fulfils on the first fulfilment (Promise.any)
AnyFulfilled(ts) == \E k \in 1..Len(ts) : ts[k] = "fulfilled"

\* Promise.all, line 129: fulfils once every sub-task has fulfilled
AllFulfilled(ts) == \A k \in 1..Len(ts) : ts[k] = "fulfilled"

\* Mutant of PromiseAllReaction: failures are tolerated and the join fulfils
\* once every sub-task has settled (Promise.allSettled)
PromiseAllSettledReaction(ts, k) ==
  IF \A j \in 1..Len(ts) : ts[j] # "pending" THEN "fulfil" ELSE "wait"

\* Mutant of PromiseAllReaction: the join fulfils as soon as one sub-task has
\* fulfilled (Promise.race)
PromiseRaceReaction(ts, k) ==
  IF ts[k] = "rejected" THEN "reject" ELSE "fulfil"

\* Mutant of PromiseAllReaction: a rejection of a sub-task is not passed on
PromiseAllIgnoresRejection(ts, k) ==
  IF AllFulfilled(ts) THEN "fulfil" ELSE "wait"

\* Promise.all, line 129: what the settling of sub-task k does to the pending
\* Promise.all: it rejects on a rejection, fulfils on the last fulfilment
PromiseAllReaction(ts, k) ==
  IF ts[k] = "rejected" THEN "reject"
  ELSE IF AllFulfilled(ts) THEN "fulfil" ELSE "wait"

\* Mutant of Inspect: the token is an ordinary property and is printed
InspectWithToken(g) ==
  <<"GitLab { api_token: ", g.api_token, ", project_id: ", ToString(g.project_id),
    ", target_branch: ", g.target_branch, " }">>

\* index.ts line 19, log(gitlab): the object as console.warn prints it, its
\* enumerable properties only (the authors table is left out of the text)
Inspect(g) ==
  <<"GitLab { project_id: ", ToString(g.project_id),
    ", target_branch: ", g.target_branch, " }">>

----------------------------------------------------------------------------
(* The run *)

Init ==
  /\ config \in Configs
  /\ gitlab = None
  /\ pc = "start"
  /\ heap = <<>>
  /\ mrs = <<>>
  /\ reqs = <<>>
  /\ tasks = <<>>
  /\ writes = <<>>
  /\ grouped = None
  /\ stdout = <<>>
  /\ stderr = <<>>

\* index.ts lines 11-24 up to the first await on the network: read the
\* configuration, construct the GitLab object, log it, and issue the listing
\* request (gitlab.ts lines 113-117); a constructor error goes to main().catch
Main ==
  /\ pc = "start"
  /\ LET thrown == ConstructorThrows(config)
         checking == Line("log", "Checking for configuration file")
     IN  IF IsSome(thrown)
         THEN /\ pc' = "failed"
              /\ stderr' = stderr \o <<checking, CatchLine(Get(thrown))>>
              /\ UNCHANGED <<gitlab, reqs>>
         ELSE LET g == NewGitLab(config)
              IN  /\ gitlab' = Some(g)
                  /\ reqs' = <<NewRequest(ListingUrl(g), 0, g.api_token)>>
                  /\ stderr' = stderr \o <<checking>> \o ConstructorWarnings(config)
                                 \o <<LineOf("log", Inspect(g)),
                                      RequestingLine(ListingUrl(g))>>
                  /\ pc' = "listing"
  /\ UNCHANGED <<config, heap, mrs, tasks, writes, grouped, stdout>>

\* Mutant of StartAll: one sub-request at a time, only the first is started
StartFirst(xs, h, api_token) ==
  [k \in 1..(IF Len(xs) > 0 THEN 1 ELSE 0) |->
     NewRequest(ApprovalsUrl(h[xs[k]].iid), h[xs[k]].iid, api_token)]

\* lines 130-131, mrs.map: the sub-request of every merge request of xs is
\* issued in the one synchronous pass of map, none awaited before the next
StartAll(xs, h, api_token) ==
  [k \in 1..Len(xs) |->
     NewRequest(ApprovalsUrl(h[xs[k]].iid), h[xs[k]].iid, api_token)]

\* openMergeRequests, lines 113-140, resumed with the listing all_mrs: filter,
\* start every sub-request, and, when there is none, return at once to main
ListingFulfilled(all_mrs, reqs1, err1, isTTY) ==
  LET g == Get(gitlab)
      h == all_mrs
      xs == SelectMRs(g, h)
      started == StartAll(xs, h, g.api_token)
      lines == [k \in DOMAIN started |-> RequestingLine(started[k].logUrl)]
      ts == [k \in 1..Len(xs) |-> "pending"]
      resumed == MainResume(g, xs, h, isTTY)
  IN  /\ heap' = h
      /\ mrs' = xs
      /\ reqs' = reqs1 \o started
      /\ tasks' = ts
      /\ writes' = [i \in 1..Len(h) |-> [approvals_needed |-> 0, blockers |-> 0]]
      /\ IF AllFulfilled(ts)
         THEN /\ pc' = resumed.pc
              /\ grouped' = resumed.grouped
              /\ stdout' = stdout \o resumed.stdout
              /\ stderr' = err1 \o lines \o resumed.stderr
         ELSE /\ pc' = "enriching"
              /\ stderr' = err1 \o lines
              /\ UNCHANGED <<grouped, stdout>>
      /\ UNCHANGED <<config, gitlab>>

\* Mutant of ListingRejected: the failure is swallowed and the run goes on with
\* an empty listing
ListingSwallowed(err, reqs1, err1) == ListingFulfilled(<<>>, reqs1, err1, FALSE)

\* Mutant of ListingRejected: the listing is requested again
ListingRetried(err, reqs1, err1) ==
  /\ reqs' = <<NewRequest(reqs1[1].logUrl, 0, Get(gitlab).api_token)>>
  /\ stderr' = err1 \o <<RequestingLine(reqs1[1].logUrl)>>
  /\ UNCHANGED <<config, gitlab, pc, heap, mrs, tasks, writes, grouped, stdout>>

\* Mutant of ListingRejected: the error is printed and a header-only report too
ListingRejectedWithReport(err, reqs1, err1) ==
  /\ pc' = "failed"
  /\ reqs' = reqs1
  /\ stderr' = err1 \o <<CatchLine(err)>>
  /\ stdout' = stdout \o <<Output(Get(gitlab), <<>>, heap)>>
  /\ UNCHANGED <<config, gitlab, heap, mrs, tasks, writes, grouped>>

\* openMergeRequests line 113 throws: main rejects, main().catch prints
ListingRejected(err, reqs1, err1) ==
  /\ pc' = "failed"
  /\ reqs' = reqs1
  /\ stderr' = err1 \o <<CatchLine(err)>>
  /\ UNCHANGED <<config, gitlab, heap, mrs, tasks, writes, grouped, stdout>>

\* lines 131-136 for sub-task k, whose request fulfilled with approvals: the
\* callback enriches its object; Promise.all and main go on when it was the last
ApprovalsFulfilled(k, approvals, reqs1, err1, isTTY) ==
  LET h == Enrich(heap, mrs[k], approvals)
      ts == [tasks EXCEPT ![k] = "fulfilled"]
      resumed == MainResume(Get(gitlab), mrs, h, isTTY)
  IN  /\ heap' = h
      /\ writes' = CountWrites(writes, mrs[k])
      /\ tasks' = ts
      /\ reqs' = reqs1
      /\ IF pc = "enriching" /\ PromiseAllReaction(ts, k) = "fulfil"
         THEN /\ pc' = resumed.pc
              /\ grouped' = resumed.grouped
              /\ stdout' = stdout \o resumed.stdout
              /\ stderr' = err1 \o resumed.stderr
         ELSE /\ stderr' = err1
              /\ UNCHANGED <<pc, grouped, stdout>>
      /\ UNCHANGED <<config, gitlab, mrs>>

\* lines 129-138 for sub-task k, whose request rejected with err: a pending
\* Promise.all rejects with it, and so do openMergeRequests and main
ApprovalsRejected(k, err, reqs1, err1) ==
  LET ts == [tasks EXCEPT ![k] = "rejected"]
  IN  /\ tasks' = ts
      /\ reqs' = reqs1
      /\ IF pc = "enriching" /\ PromiseAllReaction(ts, k) = "reject"
         THEN /\ pc' = "failed"
              /\ stderr' = err1 \o <<CatchLine(err)>>
         ELSE /\ stderr' = err1
              /\ UNCHANGED pc
      /\ UNCHANGED <<config, gitlab, heap, mrs, writes, grouped, stdout>>

\* The promise reactions run after a handler of request r has turned it into
\* new and the diagnostic stream into err1
Microtasks(r, new, err1, isTTY) ==
  LET reqs1 == [reqs EXCEPT ![r] = new]
      p == new.promise
  IN  IF ~(reqs[r].promise.state = "pending" /\ p.state # "pending")
      THEN /\ reqs' = reqs1
           /\ stderr' = err1
           /\ UNCHANGED <<config, gitlab, pc, heap, mrs, tasks, writes, grouped, stdout>>
      ELSE IF r = 1
           THEN IF p.state = "fulfilled"
                THEN ListingFulfilled(Get(Get(p.value)), reqs1, err1, isTTY)
                ELSE ListingRejected(Get(p.value), reqs1, err1)
           ELSE IF p.state = "fulfilled"
                THEN ApprovalsFulfilled(r - 1, Get(Get(p.value)), reqs1, err1, isTTY)
                ELSE ApprovalsRejected(r - 1, Get(p.value), reqs1, err1)

\* the response to request r arrives with statusCode
Response(r, statusCode) ==
  /\ r \in DOMAIN reqs
  /\ reqs[r].phase = "sent"
  /\ Microtasks(r, OnResponse(reqs[r], statusCode), stderr, FALSE)

\* a chunk of the body of request r arrives, one of at most maxChunks
Chunk(r, maxChunks) ==
  /\ r \in DOMAIN reqs
  /\ reqs[r].phase = "receiving"
  /\ reqs[r].listening
  /\ reqs[r].chunks < maxChunks
  /\ Microtasks(r, OnData(reqs[r]), stderr, FALSE)

\* the body of request r ends; what was received denotes json
End(r, json, isTTY) ==
  /\ r \in DOMAIN reqs
  /\ reqs[r].phase = "receiving"
  /\ reqs[r].listening
  /\ reqs[r].chunks = 0 => json = None
  /\ LET data == Data(reqs[r].chunks, json)
     IN  Microtasks(r, OnEnd(reqs[r], data), stderr \o EndLines(reqs[r], data), isTTY)

\* the connection of request r fails
ReqError(r) ==
  /\ r \in DOMAIN reqs
  /\ reqs[r].phase \in {"sent", "receiving"}
  /\ Microtasks(r, OnError(reqs[r]), stderr, FALSE)

----------------------------------------------------------------------------
(* What the server answers *)

\* the status codes of the responses
Statuses == {199, 200, 299, 300, 404, 500}
RunStatuses == {200, 500}

\* one merge request per author in the runs of several sub-requests
RunChoices ==
  { <<1, TRUE, FALSE, "can_be_merged", <<>>>>,
    <<2, TRUE, TRUE, "cannot_be_merged", <<"bug">>>> }

\* every combination of the fields the report depends on
OneChoices ==
  { <<a, d, c, s, IF a = 1 THEN <<>> ELSE <<"bug", "ui">>>> :
      a \in AuthorIds, d \in BOOLEAN, c \in BOOLEAN, s \in MergeStatus }

\* approvals_required and approvals_left of an answer
RunCounts == { <<MaxApprovals, 0>>, <<MaxApprovals, MaxApprovals>> }
OneCounts == { <<q, l>> : q \in 0..MaxApprovals, l \in 0..MaxApprovals } \ { <<0, l>> : l \in 1..MaxApprovals }

\* the well-formed bodies the server can answer request r with
Bodies(r, choices, maxLen, counts) ==
  IF r = 1 THEN Listings(choices, maxLen)
  ELSE { ApprovalStatus(reqs[r].iid, c) : c \in counts }

\* what the received text denotes: nothing, or one of the well-formed bodies
Texts(r, choices, maxLen, counts) ==
  {None} \cup { Some(b) : b \in Bodies(r, choices, maxLen, counts) }

\* Runs with up to MaxItems listed merge requests; every body arrives in one chunk
Next ==
  \/ Main
  \/ \E r \in DOMAIN reqs, s \in RunStatuses : Response(r, s)
  \/ \E r \in DOMAIN reqs : Chunk(r, 1)
  \/ \E r \in DOMAIN reqs, isTTY \in BOOLEAN :
       \E json \in Texts(r, RunChoices, MaxItems, RunCounts) : End(r, json, isTTY)
  \/ \E r \in DOMAIN reqs : ReqError(r)

Spec == Init /\ [][Next]_vars

\* Runs with at most one listed merge request, of any shape, every answer, and
\* bodies of up to MaxChunks chunks
\* the listed merge requests and the answers of the runs checked for
\* termination: which events arrive decides it, not what the objects hold
LiveChoices == { <<1, TRUE, FALSE, "can_be_merged", <<>>>> }
LiveCounts == { <<MaxApprovals, 0>> }

\* an event of request r is delivered to its handler
Deliver(r) ==
  /\ r \in DOMAIN reqs
  /\ \/ \E s \in RunStatuses : Response(r, s)
     \/ Chunk(r, 1)
     \/ \E isTTY \in BOOLEAN :
          \E json \in Texts(r, LiveChoices, MaxItems, LiveCounts) : End(r, json, isTTY)
     \/ ReqError(r)

NextLive ==
  \/ Main
  \/ \E r \in DOMAIN reqs : Deliver(r)

\* Runs where main runs, and every issued request goes on receiving events
\* while one is due: a response, its body to the end, or a transport error
FairSpec ==
  /\ Init /\ [][NextLive]_vars
  /\ WF_vars(Main)
  /\ \A r \in 1..(1 + MaxItems) : WF_vars(Deliver(r))

NextOne ==
  \/ Main
  \/ \E r \in DOMAIN reqs, s \in Statuses : Response(r, s)
  \/ \E r \in DOMAIN reqs : Chunk(r, MaxChunks)
  \/ \E r \in DOMAIN reqs, isTTY \in BOOLEAN :
       \E json \in Texts(r, OneChoices, 1, OneCounts) : End(r, json, isTTY)
  \/ \E r \in DOMAIN reqs : ReqError(r)

SpecOne == Init /\ [][NextOne]_vars

----------------------------------------------------------------------------
(* Properties *)

\* the lines main().catch has written
ErrorLines == SelectSeq(stderr, LAMBDA l : l.kind = "error")

\* the sub-tasks in a given state, and the request of sub-task k
SubTasks == DOMAIN tasks
RequestOf(k) == reqs[k + 1]
Failed(k) == RequestOf(k).promise.state = "rejected"
Succeeded(k) == RequestOf(k).promise.state = "fulfilled"
InFlight(k) == RequestOf(k).promise.state = "pending"

\* the listing has been received and decoded
Listed == Len(reqs) >= 1 /\ reqs[1].promise.state = "fulfilled"
Listing == Get(Get(reqs[1].promise.value))

\* C1: once an approval sub-request has failed, nothing has been or will have
\* been written to the primary output, the run has ended in failure, and the
\* one error the run reports is the error of a failed sub-request.
C1_AllOrNothing ==
  (\E k \in SubTasks : Failed(k)) =>
    /\ stdout = <<>>
    /\ pc = "failed"
    /\ Len(ErrorLines) = 1
    /\ \E k \in SubTasks :
         Failed(k) /\ ErrorLines[1].text = Get(RequestOf(k).promise.value).message

\* C1 witness: of several sub-requests one failed with status 500 after
\* another had already enriched its item
C1_Witness ==
  /\ Len(tasks) >= 2
  /\ \E k \in SubTasks : Failed(k) /\ RequestOf(k).seen.status = Some(500)
  /\ \E k \in SubTasks : Succeeded(k) /\ IsSome(heap[mrs[k]].blockers)
  /\ ErrorLines = <<Line("error", "statusCode=500")>>

\* C2 as stated: the run neither returns the collection nor reports a
\* failure while an approval sub-request is still in flight.
C2_BarrierAsClaimed ==
  pc \in {"done", "failed"} => \A k \in SubTasks : ~InFlight(k)

\* C2 amended: the collection is returned and reported only when every started
\* sub-request has completed successfully and its response is closed, and a
\* run that fails after the fan-out does so because a sub-request has failed
\* (the first failure is reported at once, others may still be in flight).
C2_BarrierOnSuccess ==
  /\ pc = "done" =>
       \A k \in SubTasks : Succeeded(k) /\ RequestOf(k).phase = "closed"
  /\ (pc = "failed" /\ Listed) => \E k \in SubTasks : Failed(k)

\* C2 witness: a report written after the join of several sub-requests
C2_Witness == pc = "done" /\ Len(tasks) >= 2 /\ Len(stdout) = 1

\* the position of the line on the diagnostic stream saying that the
\* response of sub-task k was received, 0 when there is none
ReceivedAt(k) ==
  LET hits == { i \in 1..Len(stderr) :
                  stderr[i].text = ReceivedLine(RequestOf(k).logUrl,
                                                Data(RequestOf(k).chunks, None)).text }
  IN  IF hits = {} THEN 0 ELSE CHOOSE i \in hits : TRUE

\* the enrichment-free part of a merge request
Fetched(mr) == [mr EXCEPT !.approvals_needed = None, !.blockers = None]

\* C3: whatever the completion order, the array held and returned by
\* openMergeRequests lists the filtered merge requests in listing order, every
\* object keeps its fetched fields, every enriched object carries the
\* approvals_left of the response to the request made for its own iid, and an
\* object no successful sub-request belongs to carries nothing.
C3_OrderAndIdentity ==
  Listed =>
    /\ Len(heap) = Len(Listing)
    /\ \A i \in DOMAIN heap : Fetched(heap[i]) = Listing[i]
    /\ \A k \in SubTasks : \A j \in SubTasks : k < j => mrs[k] < mrs[j]
    /\ \A k \in SubTasks :
         /\ RequestOf(k).iid = Listing[mrs[k]].iid
         /\ Succeeded(k) =>
              /\ Get(Get(RequestOf(k).promise.value)).iid = heap[mrs[k]].iid
              /\ heap[mrs[k]].approvals_needed =
                   Some(Get(Get(RequestOf(k).promise.value)).approvals_left)
    /\ \A i \in DOMAIN heap :
         (~\E k \in SubTasks : mrs[k] = i /\ Succeeded(k)) =>
           heap[i].approvals_needed = None

\* C3 witness: two sub-requests completed in the reverse of the request order,
\* with different answers, and the collection was returned
C3_Witness ==
  /\ pc = "done"
  /\ Len(tasks) >= 2
  /\ ReceivedAt(2) > 0 /\ ReceivedAt(2) < ReceivedAt(1)
  /\ heap[mrs[1]].approvals_needed # heap[mrs[2]].approvals_needed

\* the four conditions of a merge request in their fixed order, each with
\* the text it contributes
BlockerConditions(mr) ==
  << [holds |-> mr.blocking_discussions_resolved = FALSE, text |-> "unresolved threads"],
     [holds |-> mr.has_conflicts = TRUE, text |-> "has conflicts"],
     [holds |-> mr.merge_status \in {"cannot_be_merged", "cannot_be_merged_recheck"},
      text |-> "cannot be merged"],
     [holds |-> Get(mr.approvals_needed) > 0,
      text |-> "requires approval (" \o ToString(Get(mr.approvals_needed)) \o ")"] >>

ExpectedBlockers(mr) ==
  LET sel == SelectSeq(BlockerConditions(mr), LAMBDA c : c.holds)
  IN  [j \in 1..Len(sel) |-> sel[j].text]

\* C4: the blockers of every enriched merge request are exactly the texts of
\* the conditions that hold for it, in the fixed order, each once; they are
\* empty exactly when no condition holds.
C4_BlockerDerivation ==
  \A i \in DOMAIN heap :
    IsSome(heap[i].blockers) =>
      /\ Get(heap[i].blockers) = ExpectedBlockers(heap[i])
      /\ Get(heap[i].blockers) = <<>> <=>
           \A j \in 1..4 : ~BlockerConditions(heap[i])[j].holds

\* C4 witness: all four conditions hold, the status being the recheck variant
C4_Witness ==
  \E i \in DOMAIN heap :
    /\ heap[i].merge_status = "cannot_be_merged_recheck"
    /\ heap[i].blockers = Some(<<"unresolved threads", "has conflicts",
                                 "cannot be merged", "requires approval (2)">>)

\* the configured authors table is missing or empty
NoAuthors == ~IsSome(config.authors) \/ Get(config.authors) = <<>>

\* the ids of the configured authors table
ConfiguredIds == { Get(config.authors)[j].id : j \in 1..Len(Get(config.authors)) }

\* C5: with a missing or empty authors table every listed merge request
\* proceeds to enrichment, in listing order, and an approval request is issued
\* for each.
C5_FilterIdentity ==
  (Listed /\ NoAuthors) =>
    /\ mrs = [i \in 1..Len(Listing) |-> i]
    /\ Len(reqs) = 1 + Len(Listing)
    /\ \A i \in 1..Len(Listing) :
         reqs[i + 1].iid = Listing[i].iid /\ reqs[i + 1].phase # "idle"

\* C5 witness: an empty table and a listing of two merge requests by different authors
C5_Witness ==
  /\ Listed
  /\ config.authors = Some(<<>>)
  /\ Len(Listing) = 2
  /\ Listing[1].author.id # Listing[2].author.id
  /\ Len(reqs) = 3

\* C6: with a non-empty authors table the filtered array holds exactly the
\* listed merge requests whose author id is a value of the table, in listing
\* order; a table matching nothing yields the empty array.
C6_FilterSoundComplete ==
  (Listed /\ ~NoAuthors) =>
    /\ \A k \in DOMAIN mrs :
         mrs[k] \in 1..Len(Listing) /\ Listing[mrs[k]].author.id \in ConfiguredIds
    /\ \A i \in 1..Len(Listing) :
         Listing[i].author.id \in ConfiguredIds => \E k \in DOMAIN mrs : mrs[k] = i
    /\ \A k \in DOMAIN mrs : \A j \in DOMAIN mrs : k < j => mrs[k] < mrs[j]
    /\ Len(reqs) = 1 + Len(mrs)

\* C6 witness: the table keeps the second of two listed merge requests and drops the first
C6_Witness ==
  /\ Listed
  /\ ~NoAuthors
  /\ Len(Listing) = 2
  /\ mrs = <<2>>

\* the references of xs whose merge request has, or has not, blockers
Blocked(xs) == SelectSeq(xs, LAMBDA x : Len(Get(heap[x].blockers)) > 0)
Ready(xs) == SelectSeq(xs, LAMBDA x : Len(Get(heap[x].blockers)) = 0)

\* C7: the Map main groups into has no key but "ready" and "blocked", each at
\* most once; "ready" holds exactly the returned merge requests without
\* blockers and "blocked" exactly those with blockers, each in the returned
\* order, and a key is present only for a non-empty bucket: every returned
\* merge request is in exactly one bucket, once.
C7_GroupingPartition ==
  pc = "done" =>
    /\ IsSome(grouped)
    /\ LET m == Get(grouped)
       IN  /\ \A a \in DOMAIN m : m[a].key \in {"ready", "blocked"}
           /\ \A a \in DOMAIN m : \A b \in DOMAIN m : m[a].key = m[b].key => a = b
           /\ \A a \in DOMAIN m :
                m[a].values = IF m[a].key = "ready" THEN Ready(mrs) ELSE Blocked(mrs)
           /\ MapHas(m, "ready") <=> Ready(mrs) # <<>>
           /\ MapHas(m, "blocked") <=> Blocked(mrs) # <<>>
           /\ \A k \in DOMAIN mrs :
                Cardinality({ <<a, b>> \in (DOMAIN m) \X (1..Len(mrs)) :
                                b <= Len(m[a].values) /\ m[a].values[b] = mrs[k] }) = 1

\* C7 witness: two returned merge requests, the first blocked and the second ready
C7_Witness ==
  /\ pc = "done"
  /\ Len(mrs) = 2
  /\ Get(grouped) = << [key |-> "blocked", values |-> <<mrs[1]>>],
                       [key |-> "ready", values |-> <<mrs[2]>>] >>

\* what the transport delivered for a request makes it a failed request
Within2xx(status) == 200 <= status /\ status <= 299
TransportFailed(q) == q.seen.error
BadStatus(q) == IsSome(q.seen.status) /\ ~Within2xx(Get(q.seen.status))
Undecodable(q) == q.seen.body = "malformed"

\* C8: when the listing request has failed (connection error, status outside
\* 200-299, or undecodable body) no approval request exists, nothing is on the
\* primary output, and the run has ended reporting exactly that error.
C8_ListingFailureFatal ==
  (Len(reqs) >= 1 /\ (TransportFailed(reqs[1]) \/ BadStatus(reqs[1]) \/ Undecodable(reqs[1]))) =>
    /\ Len(reqs) = 1
    /\ tasks = <<>>
    /\ stdout = <<>>
    /\ pc = "failed"
    /\ reqs[1].promise.state = "rejected"
    /\ ErrorLines = <<Line("error", Get(reqs[1].promise.value).message)>>

\* C8 witness: a 2xx listing response whose non-empty body did not decode
C8_Witness ==
  /\ Len(reqs) = 1
  /\ reqs[1].seen.status = Some(200)
  /\ reqs[1].chunks = 1
  /\ Undecodable(reqs[1])
  /\ pc = "failed"

\* the outcome of a request agrees with what the transport delivered
OutcomeAgrees(q) ==
  /\ (TransportFailed(q) \/ BadStatus(q) \/ Undecodable(q)) => q.promise.state = "rejected"
  /\ q.promise.state = "fulfilled" =>
       /\ IsSome(q.seen.status) /\ Within2xx(Get(q.seen.status))
       /\ q.seen.body = "wellformed"
       /\ IsSome(Get(q.promise.value))
  /\ q.promise.state = "pending" <=> ~IsSome(q.promise.value)

\* a step leaves every settled promise as it is
SettledStays ==
  \A r \in DOMAIN reqs :
    reqs[r].promise.state # "pending" =>
      r \in DOMAIN reqs' /\ reqs'[r].promise = reqs[r].promise

\* C9: a request whose connection failed, whose status was outside 200-299 or
\* whose body was not well-formed JSON has an error outcome; a request has a
\* value only after a 2xx status and a body that parsed; and an outcome, once
\* settled, is never changed by a later event.
C9_GatewayOutcome ==
  /\ [](\A r \in DOMAIN reqs : OutcomeAgrees(reqs[r]))
  /\ [][SettledStays]_vars

\* C9 witness: a request rejected for its status 404 whose connection failed afterwards
C9_Witness ==
  \E r \in DOMAIN reqs :
    /\ reqs[r].seen.status = Some(404)
    /\ reqs[r].seen.error
    /\ reqs[r].promise = [state |-> "rejected", value |-> Some(Error("statusCode=404"))]

\* the object i survived the author filter and its own sub-request succeeded
Enriched(i) == \E k \in DOMAIN mrs : mrs[k] = i /\ Succeeded(k)

\* C10: an object's approvals_needed and blockers are set exactly when it
\* survived the author filter and its own approval sub-request completed
\* successfully, and neither field has been assigned more than once.
C10_EnrichmentFields ==
  \A i \in DOMAIN heap :
    /\ IsSome(heap[i].approvals_needed) <=> Enriched(i)
    /\ IsSome(heap[i].blockers) <=> Enriched(i)
    /\ writes[i].approvals_needed = (IF Enriched(i) THEN 1 ELSE 0)
    /\ writes[i].blockers = (IF Enriched(i) THEN 1 ELSE 0)

\* C10 witness: of two surviving merge requests one is enriched and the
\* sub-request of the other has failed
C10_Witness ==
  /\ Len(mrs) = 2
  /\ Succeeded(1) /\ IsSome(heap[mrs[1]].blockers) /\ writes[mrs[1]].blockers = 1
  /\ Failed(2) /\ ~IsSome(heap[mrs[2]].blockers)

\* the report written, and whether one of its pieces is a given text
Report == stdout[1]
HasPiece(text) == \E i \in 1..Len(Report) : Report[i] = text
ReadyTitle == "* *Ready to Merge*\n"
BlockedTitle == "* *Blocked*\n"

\* C11: a written report starts with the header naming the target branch of
\* the run; it has the "Ready to Merge" section exactly when a returned merge
\* request has no blockers and the "Blocked" section exactly when one has
\* blockers, the former first; with nothing returned it is the header alone.
C11_SectionOmission ==
  Len(stdout) >= 1 =>
    /\ Report[1] = "\n*Open MRs against " \o Coalesce(config.target_branch, "main") \o ":*\n"
    /\ HasPiece(ReadyTitle) <=> Ready(mrs) # <<>>
    /\ HasPiece(BlockedTitle) <=> Blocked(mrs) # <<>>
    /\ \A i \in 1..Len(Report) : \A j \in 1..Len(Report) :
         (Report[i] = ReadyTitle /\ Report[j] = BlockedTitle) => i < j
    /\ mrs = <<>> => Len(Report) = 1

\* C11 witness: one clean and one conflicted merge request with approvals
\* left: one entry under each title, the blocked one with its blockers
C11_Witness ==
  /\ Len(stdout) = 1
  /\ Len(mrs) = 2
  /\ Report = << "\n*Open MRs against master:*\n",
                 ReadyTitle,
                 "    * [MR 29](https://gitlab.com/mr/29) (user1)\n",
                 BlockedTitle,
                 "    * [MR 28](https://gitlab.com/mr/28) (user2)\n",
                 "        * Labels: bug\n",
                 "        * has conflicts, cannot be merged, requires approval (2)\n" >>

\* the configuration lacks a required key
ConfigError ==
  \/ ~IsSome(config.api_token) \/ Get(config.api_token) = ""
  \/ ~IsSome(config.project_id) \/ Get(config.project_id) = 0

\* a request of the run has failed; every request of the run has succeeded
GatewayError ==
  \E r \in DOMAIN reqs : TransportFailed(reqs[r]) \/ BadStatus(reqs[r]) \/ Undecodable(reqs[r])
EveryRequestSucceeded ==
  Len(reqs) >= 1 /\ \A r \in DOMAIN reqs : reqs[r].promise.state = "fulfilled"

\* C12: the primary output is written at most once; it has been written, once,
\* as soon as every request of the run has succeeded; it is never written in
\* a run with a configuration or gateway error; and a run never has both a
\* report and an error message.
C12_SingleOutcome ==
  /\ Len(stdout) <= 1
  /\ EveryRequestSucceeded => (Len(stdout) = 1 /\ pc = "done")
  /\ (ConfigError \/ GatewayError) => stdout = <<>>
  /\ ~(stdout # <<>> /\ ErrorLines # <<>>)
  /\ Len(stdout) = 1 => EveryRequestSucceeded

\* C12 witness: the report written once after a listing and two approval requests
C12_Witness ==
  /\ Len(stdout) = 1
  /\ Len(reqs) = 3
  /\ ErrorLines = <<>>

\* a line with the given text is on the diagnostic stream
Warned(text) == \E i \in 1..Len(stderr) : stderr[i] = Line("warn", text)

\* a request has been issued: the line announcing one is on the diagnostic stream
SomeRequestAnnounced ==
  \E i \in 1..Len(stderr) : \E r \in DOMAIN reqs : stderr[i] = RequestingLine(reqs[r].logUrl)

\* C13: once main has run its first turn, a configuration without api_token
\* or project_id has ended the run with the constructor's error and no request
\* was or is ever issued; any other configuration has constructed the gateway
\* and issued the listing request, a missing or empty authors table or a
\* missing target_branch having caused warnings only.
C13_ConfigErrorsPrecedeIO ==
  /\ pc = "start" => (reqs = <<>> /\ stderr = <<>>)
  /\ pc # "start" =>
       IF ConfigError
       THEN /\ pc = "failed"
            /\ gitlab = None
            /\ reqs = <<>>
            /\ ~SomeRequestAnnounced
            /\ stdout = <<>>
            /\ ErrorLines =
                 <<Line("error",
                        IF ~IsSome(config.api_token) \/ Get(config.api_token) = ""
                        THEN "missing api_token" ELSE "missing project_id")>>
       ELSE /\ IsSome(gitlab)
            /\ Len(reqs) >= 1
            /\ NoAuthors <=> Warned("missing or empty property authors")
            /\ ~IsSome(config.target_branch) <=>
                 Warned("Configuration missing branch name; defaulting to main")
            /\ Get(gitlab).target_branch = Coalesce(config.target_branch, "main")
            /\ \A i \in 1..Len(ErrorLines) :
                 ErrorLines[i].text \notin {"missing api_token", "missing project_id"}

\* C13 witness: a configuration with a token and no project_id has failed
C13_Witness ==
  /\ IsSome(config.api_token) /\ Get(config.api_token) # ""
  /\ config.project_id = None
  /\ pc = "failed"
  /\ reqs = <<>>

\* how often a request for url has been announced, and how many requests for
\* the iid exist (0 stands for the listing)
Announced(url) == Cardinality({ i \in 1..Len(stderr) : stderr[i] = RequestingLine(url) })
RequestsFor(iid) == Cardinality({ r \in DOMAIN reqs : reqs[r].iid = iid })

\* the listed merge request i passes the configured author filter
Survives(i) == NoAuthors \/ Listing[i].author.id \in ConfiguredIds

\* the requests of a state: one listing once the gateway exists, and after the
\* listing one approval request per surviving merge request and none for the others
RequestsIssuedOnce ==
  /\ gitlab = None => reqs = <<>>
  /\ IsSome(gitlab) =>
       /\ RequestsFor(0) = 1
       /\ reqs[1].logUrl = ListingUrl(Get(gitlab))
       /\ Announced(ListingUrl(Get(gitlab))) = 1
  /\ (Len(reqs) >= 1 /\ ~Listed) => Len(reqs) = 1
  /\ Listed =>
       /\ Len(reqs) = 1 + Cardinality({ i \in 1..Len(Listing) : Survives(i) })
       /\ \A i \in 1..Len(Listing) :
            LET n == IF Survives(i) THEN 1 ELSE 0
            IN  /\ RequestsFor(Listing[i].iid) = n
                /\ Announced(ApprovalsUrl(Listing[i].iid)) = n

\* a step from a state with a failed request issues no request and leaves the
\* failed request failed
NothingReissued ==
  \A r \in DOMAIN reqs :
    reqs[r].promise.state = "rejected" =>
      /\ Len(reqs') = Len(reqs)
      /\ reqs'[r].promise.state = "rejected"
      /\ reqs'[r].logUrl = reqs[r].logUrl
      /\ \A i \in (Len(stderr) + 1)..Len(stderr') :
           \A q \in DOMAIN reqs' : stderr'[i] # RequestingLine(reqs'[q].logUrl)

Token == Get(config.api_token)

\* the token is a piece of the text
Mentions(pieces, token) == \E i \in 1..Len(pieces) : pieces[i] = token

\* C15: the token of the run is in the authorization header of every request,
\* and is no piece of any line on the diagnostic stream, of the report, or of
\* the message of any error a request has ended with.
C15_TokenConfidential ==
  (IsSome(config.api_token) /\ Token # "") =>
    /\ \A r \in DOMAIN reqs : reqs[r].headers.authorization = <<"Bearer ", Token>>
    /\ \A i \in 1..Len(stderr) :
         ~Mentions(stderr[i].pieces, Token) /\ stderr[i].text # Token
    /\ \A i \in 1..Len(stdout) : ~Mentions(stdout[i], Token)
    /\ \A r \in DOMAIN reqs :
         reqs[r].promise.state = "rejected" => Get(reqs[r].promise.value).message # Token

\* C15 witness: with the second token, a run has logged the gateway, sent an
\* approvals request with the token and reported a failure
C15_Witness ==
  /\ config.api_token = Some("glpat-2")
  /\ Len(reqs) >= 2
  /\ reqs[2].headers.authorization = <<"Bearer ", "glpat-2">>
  /\ Len(ErrorLines) = 1

\* the line main().catch prints when grouping reads an unset blockers field
UnsetBlockersRead ==
  CatchLine(Error("Cannot read properties of undefined (reading 'length')"))

\* the approval response received for the k-th returned merge request
ResponseOf(k) == Get(Get(RequestOf(k).promise.value))

\* C16: when the report is written, the sub-request of every returned merge
\* request has succeeded and its callback has run, once: approvals_needed is
\* the approvals_left of its own response and blockers is what findBlockers
\* derives from the object; grouping never reads an unset blockers field.
C16_ReportImpliesEnrichment ==
  /\ \A i \in 1..Len(stderr) : stderr[i] # UnsetBlockersRead
  /\ Len(stdout) >= 1 =>
       \A k \in DOMAIN mrs :
         /\ Succeeded(k)
         /\ ResponseOf(k).iid = heap[mrs[k]].iid
         /\ heap[mrs[k]].approvals_needed = Some(ResponseOf(k).approvals_left)
         /\ heap[mrs[k]].blockers = Some(FindBlockers(heap[mrs[k]]))
         /\ writes[mrs[k]] = [approvals_needed |-> 1, blockers |-> 1]

\* C16 witness: a report on two merge requests, the first of which was the
\* last to be enriched
C16_Witness ==
  /\ Len(stdout) = 1
  /\ Len(mrs) = 2
  /\ ReceivedAt(1) > ReceivedAt(2) /\ ReceivedAt(2) > 0
  /\ Len(Get(heap[mrs[1]].blockers)) = 0
  /\ Len(Get(heap[mrs[2]].blockers)) > 0

\* the positions on the diagnostic stream of the lines announcing the k-th
\* sub-request, and of the lines reporting the size of a sub-request's response
AnnouncedAt(k) == { i \in 1..Len(stderr) : stderr[i] = RequestingLine(RequestOf(k).logUrl) }
SubResponsesAt ==
  { i \in 1..Len(stderr) :
      /\ Len(stderr[i].pieces) = 4
      /\ stderr[i].pieces[2] = " - received "
      /\ stderr[i].pieces[1] # reqs[1].logUrl }

\* there is one sub-request per returned merge request, each announced before
\* the response of any of them is reported
AllStarted ==
  Listed =>
    /\ Len(reqs) = 1 + Len(mrs)
    /\ \A k \in DOMAIN mrs :
         /\ RequestOf(k).iid = heap[mrs[k]].iid
         /\ AnnouncedAt(k) # {}
         /\ \A i \in AnnouncedAt(k) : \A j \in SubResponsesAt : i < j

\* a step that starts a sub-request starts them all, each still waiting for
\* its response
StartedTogether ==
  Len(reqs') > Len(reqs) /\ Len(reqs) >= 1 =>
    /\ Len(reqs) = 1
    /\ Len(reqs') = 1 + Len(mrs')
    /\ \A r \in 2..Len(reqs') :
         reqs'[r].phase = "sent" /\ reqs'[r].promise.state = "pending"

\* C17: after a successful listing the sub-request of every returned merge
\* request is started in the same step, before any response to a sub-request
\* is handled, so that all of them can be in flight together.
C17_FanOut == []AllStarted /\ [][StartedTogether]_vars

\* C17 witness: as many sub-requests as the largest listing has merge requests
\* are in flight, none answered yet
C17_Witness ==
  /\ Len(mrs) = MaxItems
  /\ Len(reqs) = 1 + MaxItems
  /\ \A k \in DOMAIN mrs : InFlight(k) /\ RequestOf(k).phase = "sent"

\* the positions on the diagnostic stream of the line announcing the request
\* q, and of the lines reporting the size of its response
RequestingAt(q) == { i \in 1..Len(stderr) : stderr[i] = RequestingLine(q.logUrl) }
SizeAt(q) ==
  { i \in 1..Len(stderr) :
      /\ Len(stderr[i].pieces) = 4
      /\ stderr[i].pieces[1] = q.logUrl
      /\ stderr[i].pieces[2] = " - received " }

\* the body of the response to q has been received to its end
BodyEnded(q) == q.seen.body # "none"

\* C18 as stated: every request that has completed, with any outcome, has been
\* announced and has had the size of its response reported afterwards.
C18_BracketingAsClaimed ==
  \A r \in DOMAIN reqs :
    reqs[r].promise.state # "pending" =>
      \E i \in RequestingAt(reqs[r]) : \E j \in SizeAt(reqs[r]) : i < j

\* C18 amended: every request is announced once, when it is issued; the size
\* of its response is reported, once and after the announcement, exactly when
\* a response with a 2xx status has been received to its end, whether or not
\* the body decodes, and not for a request that failed on its status or its
\* connection; the lines leave the outcome what the transport made it.
C18_Bracketing ==
  \A r \in DOMAIN reqs :
    LET q == reqs[r]
    IN  /\ Cardinality(RequestingAt(q)) = 1
        /\ Cardinality(SizeAt(q)) = (IF BodyEnded(q) THEN 1 ELSE 0)
        /\ \A j \in SizeAt(q) :
             /\ stderr[j] = ReceivedLine(q.logUrl, [length |-> q.chunks])
             /\ \A i \in RequestingAt(q) : i < j
        /\ BodyEnded(q) => IsSome(q.seen.status) /\ Within2xx(Get(q.seen.status))
        /\ q.seen.body = "malformed" => q.promise.state = "rejected"
        /\ q.seen.body = "wellformed" => q.promise.state = "fulfilled"
        /\ (BadStatus(q) \/ TransportFailed(q)) =>
             q.promise.state = "rejected" /\ ~BodyEnded(q)

\* C18 witness: the listing was received and reported, the response to one
\* sub-request did not decode and its size was reported, and another
\* sub-request failed on its status with no size reported
C18_Witness ==
  /\ Len(reqs) = 3
  /\ Cardinality(SizeAt(reqs[1])) = 1
  /\ reqs[2].seen.body = "malformed" /\ Cardinality(SizeAt(reqs[2])) = 1
  /\ BadStatus(reqs[3]) /\ SizeAt(reqs[3]) = {}

\* the approval blocker for a count, and the approval blockers an object carries
ApprovalBlocker(n) == "requires approval (" \o ToString(n) \o ")"
ApprovalBlockersOf(mr) ==
  { n \in 0..(MaxApprovals + 1) :
      \E i \in 1..Len(Get(mr.blockers)) : Get(mr.blockers)[i] = ApprovalBlocker(n) }

\* C19: once the sub-request of a returned merge request has succeeded, its
\* approvals_needed is the approvals_left of the response, whatever the
\* approvals_required, and it carries the blocker "requires approval (N)" for
\* N = approvals_left when that is positive and no approval blocker otherwise.
C19_ApprovalsLeft ==
  \A k \in SubTasks :
    Succeeded(k) =>
      LET left == ResponseOf(k).approvals_left
          mr == heap[mrs[k]]
      IN  /\ mr.approvals_needed = Some(left)
          /\ ApprovalBlockersOf(mr) = (IF left > 0 THEN {left} ELSE {})

\* C19 witness: approvals are required and none is left to give: the merge
\* request carries no approval blocker
C19_Witness ==
  /\ Len(mrs) = 1
  /\ Succeeded(1)
  /\ ResponseOf(1).approvals_required = MaxApprovals
  /\ ResponseOf(1).approvals_left = 0
  /\ heap[mrs[1]].approvals_needed = Some(0)
  /\ ApprovalBlockersOf(heap[mrs[1]]) = {}

\* the run has reached its outcome: the report alone, or one error message alone
ReportWritten == pc = "done" /\ Len(stdout) = 1 /\ ErrorLines = <<>>
ErrorReported == pc = "failed" /\ stdout = <<>> /\ Len(ErrorLines) = 1
Terminal == ReportWritten \/ ErrorReported

\* a step taken after an error message was printed writes no report and no
\* second message (the events of requests still in flight are handled)
NoReportAfterError ==
  ErrorLines # <<>> => stdout' = <<>> /\ ErrorLines' = ErrorLines /\ pc' = "failed"

\* the position of the error message on the diagnostic stream
ErrorAt == CHOOSE i \in 1..Len(stderr) : stderr[i].kind = "error"

\* C20: when every issued request keeps receiving the events due to it, every
\* run reaches a terminal outcome, the report or one error message, and stays
\* there; after an error message no report is written, though the requests
\* still in flight go on to complete.
C20_Termination ==
  /\ <>[]Terminal
  /\ [][NoReportAfterError]_vars

\* C20 witness: the run failed on one sub-request, and the other, in flight at
\* that moment, was answered and enriched its merge request afterwards
C20_Witness ==
  /\ pc = "failed"
  /\ Len(mrs) = 2
  /\ Failed(1)
  /\ Succeeded(2) /\ ReceivedAt(2) > ErrorAt
  /\ IsSome(heap[mrs[2]].blockers)
  /\ stdout = <<>>

====
